---- MODULE Spec2Model ----
(***************************************************************************)
(* MandelbrotExplorer (src/main.cpp): the control loop run(), its event    *)
(* handlers, and the parallel render pass renderMandelbrot() with its      *)
(* worker threads.                                                         *)
(*                                                                         *)
(* double values (centerX, centerY, zoom and the handlers' locals) are     *)
(* fixed-point integers counting units of 1/SCALE; every multiplication    *)
(* and division rounds to the nearest unit, as every IEEE operation rounds *)
(* to the nearest representable value.  The viewport is scaled down from   *)
(* 800 x 600 to WINDOW_WIDTH x WINDOW_HEIGHT pixels.                       *)
(*                                                                         *)
(* A pixel's colour getColor(calculateMandelbrot(c)) is kept symbolic: a   *)
(* pixel holds the arguments the colour was computed from (pixel index and *)
(* the view fields the worker read) and the number of the pass that        *)
(* computed it.                                                            *)
(***************************************************************************)
EXTENDS Integers, Sequences, FiniteSets, TLC

\* ------------------------------------------------------------------ bounds
WINDOW_WIDTH == 3
WINDOW_HEIGHT == 2
\* largest value std::thread::hardware_concurrency() returns
MaxHW == 3
\* number of events SDL_PollEvent delivers in one run: of any type, wheel
\* events alone, pointer events alone
MaxEvents == 2
MaxScrolls == 3
MaxDragEvents == 4
\* one pointer position: wheel events that zoom in, and that zoom out
MaxZoomIns == 12
MaxZoomOuts == 1
\* one pointer position: wheel events that zoom out, one after the other
MaxDeepScrolls == 100
\* partition check: viewport heights and worker counts
MaxTileH == 6
MaxTileT == 8
\* the iteration cap, scaled down from 1000
MAX_ITERATIONS == 6
\* the points c tried: both parts multiples of 1/4, up to MaxGrid quarters
MaxGrid == 10

\* --------------------------------------------------------- fixed point
DIGITS == 6
SCALE == 10 ^ DIGITS

Abs(a) == IF a < 0 THEN -a ELSE a

\* round(n / d) for d > 0, half away from zero
RoundDiv(n, d) ==
    IF n >= 0 THEN (2 * n + d) \div (2 * d)
    ELSE -((2 * (-n) + d) \div (2 * d))

\* floor(a * 10^k / d) and its remainder, one decimal digit at a time
RECURSIVE LongDiv(_, _, _, _)
LongDiv(q, r, d, k) ==
    IF k = 0 THEN <<q, r>>
    ELSE LongDiv(q * 10 + (r * 10) \div d, (r * 10) % d, d, k - 1)

\* the double a / b of two doubles a, b (in units), b # 0: round(a * SCALE / b)
FDiv(a, b) ==
    LET m  == Abs(a)
        d  == Abs(b)
        qr == LongDiv(m \div d, m % d, d, DIGITS)
        q  == qr[1] + (IF 2 * qr[2] >= d THEN 1 ELSE 0)
    IN  IF (a < 0) # (b < 0) THEN -q ELSE q

\* a threshold of one unit
EpsilonOneUnit == SCALE \div SCALE

\* 0.0001, the zoom loop's threshold
EPSILON == SCALE \div 10000

\* (p - extent/2.0) / (zoom * WINDOW_WIDTH/4.0): a pixel offset in plane units
PlaneOffset(p, extent, z) ==
    FDiv((4 * p - 2 * extent) * SCALE, z * WINDOW_WIDTH)

\* (d) / (zoom * WINDOW_WIDTH/4.0): a pixel delta in plane units
PlaneDelta(d, z) == FDiv(4 * d * SCALE, z * WINDOW_WIDTH)


\* ------------------------------------------------------------------- state
VARIABLES
    \* MandelbrotExplorer members
    centerX, centerY, zoom, dragStart, isDragging, pixels, tempPixels,
    \* the streaming texture as last updated and presented
    texture,
    \* run(): locals, position of the control thread, return site of a
    \* renderMandelbrot() call
    running, event, pc, ret,
    \* SDL_MOUSEWHEEL handler locals
    mouseX, mouseY, mouseWorldX, mouseWorldY, targetZoom, steps, currentZoom,
    \* renderMandelbrot() locals; i is the index of its three loops
    numThreads, linesPerThread, threads, threadBuffers, i,
    \* environment: result of hardware_concurrency(), events delivered so far
    hw, nEvents,
    \* the partition on its own: viewport height, worker count, loop index
    \* and the tiles <<startY, endY>> generated so far
    tileH, tileT, tileI, tiles,
    \* history: render passes started; the current wheel event (passes
    \* started, zoom and wheel.y when it was dispatched); the last
    \* left-button event; the current drag (where and under which view it
    \* began, pointer moves since); wheel events handled so far, by direction
    frame, wheelStart, lastPrimary, drag, scrollIns, scrollOuts,
    \* one pixel's colour computation: the point c, calculateMandelbrot()'s
    \* locals z, zabs and iterations, the position in the computation, and
    \* what getColor() did with the count it was given
    cRe, cIm, zRe, zIm, zabs, iterations, epc, colorCall

viewVars   == <<centerX, centerY, zoom>>
dragVars   == <<dragStart, isDragging>>
bufVars    == <<pixels, tempPixels, texture>>
wheelVars  == <<mouseX, mouseY, mouseWorldX, mouseWorldY, targetZoom, steps,
                currentZoom, wheelStart>>
renderVars == <<numThreads, linesPerThread, threads, threadBuffers, i>>
envVars    == <<hw>>
engineVars == <<cRe, cIm, zRe, zIm, zabs, iterations, epc, colorCall>>
tileVars   == <<tileH, tileT, tileI, tiles>>
histVars   == <<lastPrimary, drag, scrollIns, scrollOuts>>
vars == <<viewVars, dragVars, bufVars, wheelVars, renderVars, envVars, engineVars, tileVars,
          histVars, running, event, pc, ret, nEvents, frame>>

NPIXELS == WINDOW_WIDTH * WINDOW_HEIGHT
PixelIdx == 0 .. NPIXELS - 1

\* a value-initialised uint32_t: no pass computed it
Blank == [frame |-> 0, px |-> 0, zoom |-> 0, cx |-> 0, cy |-> 0]
BlankBuffer == [p \in PixelIdx |-> Blank]

\* -------------------------------------------------- renderMandelbrot()
\* every tile started at the first line
TileStartZero(t, lpt) == 0

\* startY / endY of tile t among n tiles of lpt lines, viewport height h
TileStart(t, lpt) == t * lpt
\* the last tile not extended to the viewport height
TileEndNoRemainder(t, n, lpt, h) == (t + 1) * lpt

TileEnd(t, n, lpt, h) == IF t = n - 1 THEN h ELSE (t + 1) * lpt

\* getColor(calculateMandelbrot(c)) for the pixel (x, y) under the view the
\* worker reads through `this`
ColorOf(x, y) ==
    [frame |-> frame, px |-> y * WINDOW_WIDTH + x,
     zoom |-> zoom, cx |-> centerX, cy |-> centerY]

\* no thread, no thread buffer
NoThreads == [t \in {} |-> Blank]

RenderPcs == {"r_spawn", "r_join", "r_merge", "r_swap", "r_present"}

\* a call of renderMandelbrot() returning to `site`
CallRender(site) == pc' = "r_begin" /\ ret' = site

\* lines 60-62, 78: worker count, scratch buffers, lines per thread.
\* WINDOW_HEIGHT / 0 is undefined: the division traps, or yields some value
\* and none of the three loops over the threads has an iteration.
RenderBegin ==
    /\ pc = "r_begin"
    /\ frame' = frame + 1
    /\ numThreads' = hw
    /\ threadBuffers' = [t \in 0 .. hw - 1 |-> BlankBuffer]
    /\ threads' = NoThreads
    /\ i' = 0
    /\ IF hw = 0
       THEN \/ pc' = "crashed" /\ linesPerThread' = 0
            \/ pc' = "r_swap" /\ linesPerThread' \in {0, WINDOW_HEIGHT}
       ELSE pc' = "r_spawn" /\ linesPerThread' = WINDOW_HEIGHT \div hw
    /\ UNCHANGED <<viewVars, dragVars, bufVars, wheelVars, envVars, engineVars, tileVars, histVars,
                   running, event, ret, nEvents>>

\* the loop left after its first iteration
LoopOnce(after) == i' = 0 /\ pc' = after

\* ++i and the loop test of one of the three loops over the threads: the
\* loop goes on, or control reaches the statement after it
LoopOn(after) ==
    IF i + 1 < numThreads THEN i' = i + 1 /\ pc' = pc
    ELSE i' = 0 /\ pc' = after

\* lines 79-83: start thread i on tile i
Spawn ==
    /\ pc = "r_spawn"
    /\ threads' = [t \in 0 .. i |->
            IF t < i THEN threads[t]
            ELSE [st |-> "run",
                  startY |-> TileStart(i, linesPerThread),
                  endY |-> TileEnd(i, numThreads, linesPerThread,
                                   WINDOW_HEIGHT),
                  y |-> TileStart(i, linesPerThread), x |-> 0]]
    /\ LoopOn("r_join")
    /\ UNCHANGED <<viewVars, dragVars, bufVars, wheelVars, envVars, engineVars, tileVars, histVars, numThreads,
                   linesPerThread, threadBuffers, running, event, ret,
                   nEvents, frame>>

Started == DOMAIN threads

\* lines 65-74: worker t computes one pixel into its buffer
WorkerPixel(t) ==
    /\ t \in Started
    /\ threads[t].st = "run"
    /\ threads[t].y < threads[t].endY
    /\ LET y == threads[t].y
           x == threads[t].x
       IN /\ threadBuffers' = [threadBuffers EXCEPT
                                 ![t][y * WINDOW_WIDTH + x] = ColorOf(x, y)]
          /\ threads' = [threads EXCEPT
                 ![t].x = IF x + 1 < WINDOW_WIDTH THEN x + 1 ELSE 0,
                 ![t].y = IF x + 1 < WINDOW_WIDTH THEN y ELSE y + 1]
    /\ UNCHANGED <<viewVars, dragVars, bufVars, wheelVars, envVars, engineVars, tileVars, histVars, numThreads,
                   linesPerThread, i, running, event, pc, ret, nEvents, frame>>

\* line 65 with y = endY: worker t leaves renderLine and finishes
WorkerExit(t) ==
    /\ t \in Started
    /\ threads[t].st = "run"
    /\ threads[t].y >= threads[t].endY
    /\ threads' = [threads EXCEPT ![t].st = "done"]
    /\ UNCHANGED <<viewVars, dragVars, bufVars, wheelVars, envVars, engineVars, tileVars, histVars, numThreads,
                   linesPerThread, threadBuffers, i, running, event, pc, ret,
                   nEvents, frame>>

\* the join that does not wait for the thread
JoinNoWait ==
    /\ pc = "r_join"
    /\ threads' = [threads EXCEPT ![i].st = "joined"]
    /\ LoopOn("r_merge")
    /\ UNCHANGED <<viewVars, dragVars, bufVars, wheelVars, envVars, engineVars, tileVars,
                   histVars, numThreads, linesPerThread, threadBuffers,
                   running, event, ret, nEvents, frame>>

\* lines 86-88: join thread i, blocking until it has finished
Join ==
    /\ pc = "r_join"
    /\ threads[i].st = "done"
    /\ threads' = [threads EXCEPT ![i].st = "joined"]
    /\ LoopOn("r_merge")
    /\ UNCHANGED <<viewVars, dragVars, bufVars, wheelVars, envVars, engineVars, tileVars, histVars, numThreads,
                   linesPerThread, threadBuffers, running, event, ret,
                   nEvents, frame>>

\* lines 91-100: copy tile i from thread buffer i into tempPixels
Merge ==
    /\ pc = "r_merge"
    /\ LET lo == TileStart(i, linesPerThread) * WINDOW_WIDTH
           hi == TileEnd(i, numThreads, linesPerThread, WINDOW_HEIGHT)
                   * WINDOW_WIDTH
       IN tempPixels' = [p \in PixelIdx |->
              IF lo <= p /\ p < hi THEN threadBuffers[i][p]
              ELSE tempPixels[p]]
    /\ LoopOn("r_swap")
    /\ UNCHANGED <<viewVars, dragVars, pixels, texture, wheelVars, envVars, engineVars, tileVars, histVars,
                   numThreads, linesPerThread, threads, threadBuffers,
                   running, event, ret, nEvents, frame>>

\* line 103: std::swap(pixels, tempPixels)
Swap ==
    /\ pc = "r_swap"
    /\ pixels' = tempPixels
    /\ tempPixels' = pixels
    /\ pc' = "r_present"
    /\ UNCHANGED <<viewVars, dragVars, texture, wheelVars, renderVars, envVars, engineVars, tileVars, histVars,
                   running, event, ret, nEvents, frame>>

\* lines 104-108: update the texture from pixels, present, return; the
\* locals are destroyed
Present ==
    /\ pc = "r_present"
    /\ texture' = pixels
    /\ numThreads' = 0 /\ linesPerThread' = 0 /\ i' = 0
    /\ threads' = NoThreads /\ threadBuffers' = NoThreads
    /\ pc' = ret
    /\ ret' = "none"
    /\ UNCHANGED <<viewVars, dragVars, pixels, tempPixels, wheelVars, envVars, engineVars, tileVars, histVars,
                   running, event, nEvents, frame>>


\* ------------------------------------------------------------------ run()
\* the pointer positions the environment reports: the first pixel, the
\* middle pixel and the last pixel of the viewport
Pointers ==
    {<<0, 0>>, <<WINDOW_WIDTH \div 2, WINDOW_HEIGHT \div 2>>,
     <<WINDOW_WIDTH - 1, WINDOW_HEIGHT - 1>>}

\* an SDL_Event: its type and the fields run() reads
Ev(type, wev, sym, button, x, y, wy) ==
    [type |-> type, wev |-> wev, sym |-> sym, button |-> button,
     x |-> x, y |-> y, wy |-> wy]

NoEvent == Ev("NONE", "NONE", "NONE", "NONE", 0, 0, 0)

\* what SDL_PollEvent can deliver.  An SDL_QUIT event has no window.event
\* member: the byte run() reads there is indeterminate.
Events ==
    {Ev("QUIT", w, "NONE", "NONE", 0, 0, 0) : w \in {"CLOSE", "OTHER"}}
    \cup {Ev("WINDOWEVENT", w, "NONE", "NONE", 0, 0, 0) : w \in {"CLOSE", "OTHER"}}
    \cup {Ev("KEYDOWN", "NONE", k, "NONE", 0, 0, 0) : k \in {"ESCAPE", "OTHER"}}
    \cup {Ev(t, "NONE", "NONE", b, p[1], p[2], 0) :
            t \in {"MOUSEBUTTONDOWN", "MOUSEBUTTONUP"},
            b \in {"LEFT", "RIGHT"}, p \in Pointers}
    \cup {Ev("MOUSEMOTION", "NONE", "NONE", "NONE", p[1], p[2], 0) :
            p \in Pointers}
    \cup {Ev("MOUSEWHEEL", "NONE", "NONE", "NONE", 0, 0, w) : w \in {-1, 0, 1}}
    \cup {Ev("KEYUP", "NONE", "NONE", "NONE", 0, 0, 0)}

WheelEvents == {e \in Events : e.type = "MOUSEWHEEL"}
PointerEvents ==
    {e \in Events :
       e.type \in {"MOUSEBUTTONDOWN", "MOUSEBUTTONUP", "MOUSEMOTION"}}

\* the button identity not tested
AnyButton(b) == b \in {"LEFT", "RIGHT"}

\* lines 172, 179: event.button.button == SDL_BUTTON_LEFT
IsPrimary(b) == b = "LEFT"

\* line 217: steps > 10
StepsExceeded(st) == st > 10

NoDrag == [x0 |-> 0, y0 |-> 0, cx0 |-> 0, cy0 |-> 0, moves |-> 0, fixed |-> FALSE]

\* 1.1 added or subtracted instead of multiplied or divided
TargetZoomSubtracted(z, wy) ==
    IF wy > 0 THEN z + (11 * SCALE) \div 10 ELSE z - (11 * SCALE) \div 10

\* line 204: zoom * 1.1 or zoom / 1.1
TargetZoom(z, wy) ==
    IF wy > 0 THEN RoundDiv(z * 11, 10) ELSE RoundDiv(z * 10, 11)

\* steps tenths of the way from the zoom the wheel event started with
ZoomStepFromStart(z, target, st) ==
    wheelStart.zoom + RoundDiv((target - wheelStart.zoom) * st, 10)

\* a tenth of the remaining way in every sub-step
ZoomStepTenth(z, target, st) == z + RoundDiv(target - z, 10)

\* line 209: zoom + (targetZoom - zoom) * (steps / 10.0)
ZoomStep(z, target, st) == z + RoundDiv((target - z) * st, 10)

\* lines 200-201: the plane coordinate of pixel coordinate p
ToPlane(p, extent, z, center) == PlaneOffset(p, extent, z) + center

\* the offset of the pointer added instead of subtracted
RecenterAdded(w, p, extent, z) == w + PlaneOffset(p, extent, z)

\* lines 212-213: the centre that puts plane coordinate w under pixel p
Recenter(w, p, extent, z) == w - PlaneOffset(p, extent, z)

\* the view moved with the pointer instead of against it
DragCenterWithPointer(center, from, to, z) == center + PlaneDelta(to - from, z)

\* lines 186-189: the centre after the pointer moved from `from` to `to`
DragCenter(center, from, to, z) == center - PlaneDelta(to - from, z)

\* lines 150, 153: run() starts with the first render pass
Start ==
    /\ pc = "start"
    /\ running' = TRUE
    /\ CallRender("loop")
    /\ UNCHANGED <<viewVars, dragVars, bufVars, wheelVars, renderVars, envVars, engineVars, tileVars,
                   histVars, event, nEvents, frame>>

\* line 155: while (running)
Loop ==
    /\ pc = "loop"
    /\ pc' = IF running THEN "poll" ELSE "done"
    /\ UNCHANGED <<viewVars, dragVars, bufVars, wheelVars, renderVars, envVars, engineVars, tileVars,
                   histVars, running, event, ret, nEvents, frame>>

\* line 156: SDL_PollEvent delivers an event, one of `evs`, as long as
\* fewer than `max` were delivered
PollFrom(evs, max) ==
    /\ pc = "poll"
    /\ nEvents < max
    /\ \E e \in evs : event' = e
    /\ nEvents' = nEvents + 1
    /\ pc' = "dispatch"
    /\ UNCHANGED <<viewVars, dragVars, bufVars, wheelVars, renderVars, envVars, engineVars, tileVars,
                   histVars, running, ret, frame>>

Poll == PollFrom(Events, MaxEvents)
PollWheel == PollFrom(WheelEvents, MaxScrolls)
PollPointer == PollFrom(PointerEvents, MaxDragEvents)
\* a wheel event before any other event
PollWheelFirst == PollFrom(WheelEvents, 1)
\* wheel events that zoom in, and up to MaxZoomOuts that zoom out
PollZoom ==
    PollFrom({e \in WheelEvents : e.wy > 0 \/ scrollOuts < MaxZoomOuts},
             MaxZoomIns)

\* wheel events that zoom out
PollZoomOut == PollFrom({e \in WheelEvents : e.wy < 0}, MaxDeepScrolls)

\* line 156: SDL_PollEvent finds the queue empty
PollNone ==
    /\ pc = "poll"
    /\ pc' = "loop"
    /\ UNCHANGED <<viewVars, dragVars, bufVars, wheelVars, renderVars, envVars, engineVars, tileVars,
                   histVars, running, event, ret, nEvents, frame>>

\* the handler is over: back to SDL_PollEvent; the event is not read again
Handled == pc' = "poll" /\ event' = NoEvent

\* lines 158-163
OnQuitOrWindow ==
    /\ pc = "dispatch"
    /\ event.type \in {"QUIT", "WINDOWEVENT"}
    /\ running' = IF event.wev = "CLOSE" THEN FALSE ELSE running
    /\ Handled
    /\ UNCHANGED <<viewVars, dragVars, bufVars, wheelVars, renderVars, envVars, engineVars, tileVars,
                   histVars, ret, nEvents, frame>>

\* lines 165-169
OnKeyDown ==
    /\ pc = "dispatch"
    /\ event.type = "KEYDOWN"
    /\ running' = IF event.sym = "ESCAPE" THEN FALSE ELSE running
    /\ Handled
    /\ UNCHANGED <<viewVars, dragVars, bufVars, wheelVars, renderVars, envVars, engineVars, tileVars,
                   histVars, ret, nEvents, frame>>

\* lines 171-176
OnMouseButtonDown ==
    /\ pc = "dispatch"
    /\ event.type = "MOUSEBUTTONDOWN"
    /\ IF IsPrimary(event.button)
       THEN /\ dragStart' = <<event.x, event.y>>
            /\ isDragging' = TRUE
            /\ drag' = [x0 |-> event.x, y0 |-> event.y, cx0 |-> centerX,
                        cy0 |-> centerY, moves |-> 0, fixed |-> TRUE]
       ELSE UNCHANGED <<dragVars, drag>>
    /\ lastPrimary' = IF event.button = "LEFT" THEN "down" ELSE lastPrimary
    /\ Handled
    /\ UNCHANGED <<viewVars, bufVars, wheelVars, renderVars, envVars, engineVars, tileVars,
                   scrollIns, scrollOuts, running, ret, nEvents, frame>>

\* lines 178-182
OnMouseButtonUp ==
    /\ pc = "dispatch"
    /\ event.type = "MOUSEBUTTONUP"
    /\ IF IsPrimary(event.button)
       THEN /\ isDragging' = FALSE
            /\ drag' = NoDrag
       ELSE UNCHANGED <<isDragging, drag>>
    /\ lastPrimary' = IF event.button = "LEFT" THEN "up" ELSE lastPrimary
    /\ Handled
    /\ UNCHANGED <<viewVars, dragStart, bufVars, wheelVars, renderVars, envVars, engineVars, tileVars,
                   scrollIns, scrollOuts, running, ret, nEvents, frame>>

\* the pointer move handled whether or not a drag is active
OnMouseMotionAlways ==
    /\ pc = "dispatch"
    /\ event.type = "MOUSEMOTION"
    /\ event' = NoEvent
    /\ centerX' = DragCenter(centerX, dragStart[1], event.x, zoom)
    /\ centerY' = DragCenter(centerY, dragStart[2], event.y, zoom)
    /\ dragStart' = <<event.x, event.y>>
    /\ drag' = [drag EXCEPT !.moves = @ + 1]
    /\ CallRender("poll")
    /\ UNCHANGED <<zoom, isDragging, bufVars, wheelVars, renderVars, envVars,
                   engineVars, tileVars, lastPrimary, scrollIns, scrollOuts,
                   running, nEvents, frame>>

\* lines 184-193
OnMouseMotion ==
    /\ pc = "dispatch"
    /\ event.type = "MOUSEMOTION"
    /\ event' = NoEvent
    /\ IF isDragging
       THEN /\ centerX' = DragCenter(centerX, dragStart[1], event.x, zoom)
            /\ centerY' = DragCenter(centerY, dragStart[2], event.y, zoom)
            /\ dragStart' = <<event.x, event.y>>
            /\ drag' = [drag EXCEPT !.moves = @ + 1]
            /\ CallRender("poll")
       ELSE /\ pc' = "poll"
            /\ UNCHANGED <<centerX, centerY, dragStart, drag, ret>>
    /\ UNCHANGED <<zoom, isDragging, bufVars, wheelVars, renderVars, envVars, engineVars, tileVars,
                   lastPrimary, scrollIns, scrollOuts, running, nEvents, frame>>

\* lines 195-207: SDL_GetMouseState reports one of `ptrs`; the point under
\* the pointer, the target
OnMouseWheelAt(ptrs) ==
    /\ pc = "dispatch"
    /\ event.type = "MOUSEWHEEL"
    /\ \E m \in ptrs :
         /\ mouseX' = m[1]
         /\ mouseY' = m[2]
         /\ mouseWorldX' = ToPlane(m[1], WINDOW_WIDTH, zoom, centerX)
         /\ mouseWorldY' = ToPlane(m[2], WINDOW_HEIGHT, zoom, centerY)
    /\ targetZoom' = TargetZoom(zoom, event.wy)
    /\ steps' = 1
    /\ currentZoom' = zoom
    /\ wheelStart' = [frame |-> frame, zoom |-> zoom, wy |-> event.wy]
    /\ scrollIns' = scrollIns + (IF event.wy > 0 THEN 1 ELSE 0)
    /\ scrollOuts' = scrollOuts + (IF event.wy > 0 THEN 0 ELSE 1)
    /\ event' = NoEvent
    /\ pc' = "wheel_loop"
    /\ UNCHANGED <<viewVars, dragVars, bufVars, renderVars, envVars, engineVars, tileVars,
                   lastPrimary, drag, running, ret, nEvents, frame>>

OnMouseWheel == OnMouseWheelAt(Pointers)
\* the pointer rests on the first pixel
OnMouseWheelFirstPixel == OnMouseWheelAt({<<0, 0>>})

NoWheel == [frame |-> 0, zoom |-> 0, wy |-> 0]

\* the wheel handler is over; its locals are dead
WheelExit ==
    /\ pc' = "poll"
    /\ mouseX' = 0 /\ mouseY' = 0 /\ mouseWorldX' = 0 /\ mouseWorldY' = 0
    /\ targetZoom' = 0 /\ steps' = 0 /\ currentZoom' = 0
    /\ wheelStart' = NoWheel

\* lines 208-215: the loop test, and one zoom sub-step with its render
WheelLoop ==
    /\ pc = "wheel_loop"
    /\ IF Abs(currentZoom - targetZoom) > EPSILON
       THEN /\ currentZoom' = ZoomStep(zoom, targetZoom, steps)
            /\ zoom' = currentZoom'
            /\ centerX' = Recenter(mouseWorldX, mouseX, WINDOW_WIDTH, zoom')
            /\ centerY' = Recenter(mouseWorldY, mouseY, WINDOW_HEIGHT, zoom')
            /\ drag' = IF isDragging THEN [drag EXCEPT !.fixed = FALSE] ELSE drag
            /\ CallRender("wheel_after")
            /\ UNCHANGED <<mouseX, mouseY, mouseWorldX, mouseWorldY,
                           targetZoom, steps, wheelStart>>
       ELSE /\ WheelExit
            /\ UNCHANGED <<viewVars, drag, ret>>
    /\ UNCHANGED <<dragVars, bufVars, renderVars, envVars, engineVars, tileVars, lastPrimary,
                   scrollIns, scrollOuts, running, event, nEvents, frame>>

\* lines 216-217: steps++, and the cap of 10 sub-steps
WheelAfter ==
    /\ pc = "wheel_after"
    /\ IF StepsExceeded(steps + 1)
       THEN WheelExit
       ELSE /\ steps' = steps + 1
            /\ pc' = "wheel_loop"
            /\ UNCHANGED <<mouseX, mouseY, mouseWorldX, mouseWorldY,
                           targetZoom, currentZoom, wheelStart>>
    /\ UNCHANGED <<viewVars, dragVars, bufVars, renderVars, envVars, engineVars, tileVars, histVars,
                   running, event, ret, nEvents, frame>>

\* default: an event type run() has no case for
OnOther ==
    /\ pc = "dispatch"
    /\ event.type = "KEYUP"
    /\ Handled
    /\ UNCHANGED <<viewVars, dragVars, bufVars, wheelVars, renderVars, envVars, engineVars, tileVars,
                   histVars, running, ret, nEvents, frame>>

\* ------------------------------- calculateMandelbrot() and getColor()
\* the parts of c and z count units of 1/ESCALE
ESCALE == 10 ^ (DIGITS \div 2)

\* everything but the colour computation of one pixel
programVars == <<viewVars, dragVars, bufVars, wheelVars, renderVars, envVars,
                 tileVars, histVars, running, event, pc, ret, nEvents, frame>>

\* floor(sqrt(n)) by bisection, lo * lo <= n < hi * hi
RECURSIVE SqrtBetween(_, _, _)
SqrtBetween(n, lo, hi) ==
    IF hi - lo <= 1 THEN lo
    ELSE LET mid == (lo + hi) \div 2
         IN  IF mid * mid <= n THEN SqrtBetween(n, mid, hi)
             ELSE SqrtBetween(n, lo, mid)

\* std::abs(z) of a complex z: sqrt(re^2 + im^2), rounded to the nearest unit
Hypot(re, im) ==
    LET n == re * re + im * im
        r == SqrtBetween(n, 0, 16384)
    IN  IF n - r * r > r THEN r + 1 ELSE r

\* z * z + c, each part rounded to the nearest unit
SquareAdd(re, im, cr, ci) ==
    <<RoundDiv(re * re - im * im, ESCALE) + cr,
      RoundDiv(2 * re * im, ESCALE) + ci>>

\* the orbit started at c
OrbitStartAtC(cr, ci) == <<cr, ci>>

\* line 46: std::complex<double> z = 0
OrbitStart(cr, ci) == <<0, 0>>

\* the radius itself counted as escaped
InRadiusStrict(za) == za < 2 * ESCALE

\* line 50: zabs <= 2.0
InRadius(za) == za <= 2 * ESCALE

\* the points the renderer maps pixels to (lines 67-70)
Grid == {q * (ESCALE \div 4) : q \in -MaxGrid .. MaxGrid}

\* lines 67-71: calculateMandelbrot(c) is called for a pixel's point c
CalcCall ==
    /\ epc = "idle"
    /\ cRe' \in Grid /\ cIm' \in Grid
    /\ zRe' = OrbitStart(cRe', cIm')[1]
    /\ zIm' = OrbitStart(cRe', cIm')[2]
    /\ iterations' = 0
    /\ epc' = "loop"
    /\ UNCHANGED <<programVars, zabs, colorCall>>

\* lines 50-56: the loop test, and one iteration or the return
CalcLoop ==
    /\ epc = "loop"
    /\ zabs' = Hypot(zRe, zIm)
    /\ IF InRadius(zabs') /\ iterations < MAX_ITERATIONS
       THEN /\ zRe' = SquareAdd(zRe, zIm, cRe, cIm)[1]
            /\ zIm' = SquareAdd(zRe, zIm, cRe, cIm)[2]
            /\ iterations' = iterations + 1
            /\ epc' = "loop"
       ELSE /\ epc' = "color"
            /\ UNCHANGED <<zRe, zIm, iterations>>
    /\ UNCHANGED <<programVars, cRe, cIm, colorCall>>

\* the sign of log2(n) for an int n >= 0: log2(0) is -infinity, log2(1) is 0
Log2Sign(n) == IF n = 0 THEN -1 ELSE IF n = 1 THEN 0 ELSE 1

\* lines 72, 28-43: getColor(iterations); the cap is special-cased, any other
\* count goes through log2(log2(abs(iterations)))
GetColor ==
    /\ epc = "color"
    /\ colorCall' =
         IF iterations = MAX_ITERATIONS
         THEN [called |-> TRUE, special |-> TRUE, inner |-> 0, outer |-> 0]
         ELSE [called |-> TRUE, special |-> FALSE,
               inner |-> Abs(iterations),
               outer |-> Log2Sign(Abs(iterations))]
    /\ epc' = "done"
    /\ UNCHANGED <<programVars, cRe, cIm, zRe, zIm, zabs, iterations>>

\* ------------------------------------------------------------ specification
\* no pixel's colour is being computed
NoColorCall == [called |-> FALSE, special |-> FALSE, inner |-> 0, outer |-> 0]

NoEngine ==
    /\ cRe = 0 /\ cIm = 0 /\ zRe = 0 /\ zIm = 0 /\ zabs = 0
    /\ iterations = 0 /\ epc = "idle" /\ colorCall = NoColorCall

\* the members after construction (lines 21-26, 112-113), run() not entered
InitProgram ==
    /\ centerX = -(SCALE \div 2) /\ centerY = 0
    /\ dragStart = <<0, 0>> /\ isDragging = FALSE
    /\ pixels = BlankBuffer /\ tempPixels = BlankBuffer /\ texture = BlankBuffer
    /\ running = FALSE /\ event = NoEvent /\ pc = "start" /\ ret = "none"
    /\ mouseX = 0 /\ mouseY = 0 /\ mouseWorldX = 0 /\ mouseWorldY = 0
    /\ targetZoom = 0 /\ steps = 0 /\ currentZoom = 0 /\ wheelStart = NoWheel
    /\ numThreads = 0 /\ linesPerThread = 0 /\ i = 0
    /\ threads = NoThreads /\ threadBuffers = NoThreads
    /\ nEvents = 0 /\ frame = 0
    /\ lastPrimary = "none" /\ drag = NoDrag /\ scrollIns = 0 /\ scrollOuts = 0
    /\ NoEngine

NoTiles == tileH = 0 /\ tileT = 0 /\ tileI = 0 /\ tiles = <<>>

Init ==
    /\ InitProgram
    /\ zoom = SCALE
    /\ hw \in 0 .. MaxHW
    /\ NoTiles

WorkerStep == \E t \in 0 .. MaxHW : WorkerPixel(t) \/ WorkerExit(t)

Render ==
    \/ RenderBegin \/ Spawn \/ WorkerStep \/ Join \/ Merge \/ Swap \/ Present

Next ==
    \/ Start \/ Loop \/ Poll \/ PollNone
    \/ OnQuitOrWindow \/ OnKeyDown \/ OnMouseButtonDown \/ OnMouseButtonUp
    \/ OnMouseMotion \/ OnMouseWheelFirstPixel \/ WheelLoop \/ WheelAfter
    \/ OnOther
    \/ Render

Spec == Init /\ [][Next]_vars

\* ---- wheel events alone, one worker
\* (InitOneWorker is also the start of the specifications below)
InitOneWorker ==
    /\ InitProgram
    /\ zoom = SCALE
    /\ hw = 1
    /\ NoTiles

NextZoom ==
    \/ Start \/ Loop \/ PollWheel \/ PollNone
    \/ OnMouseWheel \/ WheelLoop \/ WheelAfter
    \/ Render

SpecZoom == InitOneWorker /\ [][NextZoom]_vars

\* ---- wheel events with the pointer on the first pixel, one worker
NextZoomIn ==
    \/ Start \/ Loop \/ PollZoom \/ PollNone
    \/ OnMouseWheelFirstPixel \/ WheelLoop \/ WheelAfter
    \/ Render

SpecZoomIn == InitOneWorker /\ [][NextZoomIn]_vars

\* ---- every event, one worker; the control thread and the workers keep
\* running: a step that stays possible is taken
SpecFair == InitOneWorker /\ [][Next]_vars /\ WF_vars(Next)

\* ---- wheel events that zoom out, the pointer on the first pixel, one worker
NextZoomOut ==
    \/ Start \/ Loop \/ PollZoomOut \/ PollNone
    \/ OnMouseWheelFirstPixel \/ WheelLoop \/ WheelAfter
    \/ Render

SpecZoomOut == InitOneWorker /\ [][NextZoomOut]_vars

\* ---- pointer events, after at most one wheel event; one worker
NextDrag ==
    \/ Start \/ Loop \/ PollWheelFirst \/ PollPointer \/ PollNone
    \/ OnMouseWheelFirstPixel \/ WheelLoop \/ WheelAfter
    \/ OnMouseButtonDown \/ OnMouseButtonUp \/ OnMouseMotion
    \/ Render

SpecDrag == InitOneWorker /\ [][NextDrag]_vars

\* ---- the partition of lines 78-83 for every height and worker count
GenTile ==
    /\ tileI < tileT
    /\ LET lpt == tileH \div tileT
       IN tiles' = Append(tiles, <<TileStart(tileI, lpt),
                                   TileEnd(tileI, tileT, lpt, tileH)>>)
    /\ tileI' = tileI + 1
    /\ UNCHANGED <<viewVars, dragVars, bufVars, wheelVars, renderVars, envVars, engineVars,
                   histVars, running, event, pc, ret, nEvents, frame,
                   tileH, tileT>>

InitTiles ==
    /\ InitProgram
    /\ zoom = SCALE
    /\ hw = 1
    /\ tileH \in 1 .. MaxTileH
    /\ tileT \in 1 .. MaxTileT
    /\ tileI = 0
    /\ tiles = <<>>

SpecTiles == InitTiles /\ [][GenTile]_vars

\* ---- the colour of one pixel: lines 67-72 for a point c of the grid
NextEscape == CalcCall \/ CalcLoop \/ GetColor

SpecEscape == InitOneWorker /\ [][NextEscape]_vars

\* ================================================================== claims

\* C1: at the moment renderMandelbrot() hands the front buffer to the display
\* surface, every pixel index in [0, W*H) of pixels holds the colour a worker
\* computed for that index during the current pass.
FrontBufferFullyPopulated ==
    pc = "r_present" =>
        \A p \in PixelIdx : pixels[p].frame = frame /\ pixels[p].px = p

\* C2: the tiles generated for a height H >= 1 and a worker count T >= 1 are
\* contiguous from row 0 to row H, and every row of [0, H) lies in exactly one
\* tile.
TileCoverage ==
    tileI = tileT /\ tileT >= 1 =>
        /\ Len(tiles) = tileT
        /\ tiles[1][1] = 0
        /\ tiles[tileT][2] = tileH
        /\ \A k \in 1 .. tileT - 1 : tiles[k][2] = tiles[k + 1][1]
        /\ \A k \in 1 .. tileT : tiles[k][1] <= tiles[k][2]
        /\ \A r \in 0 .. tileH - 1 :
             Cardinality({k \in 1 .. tileT :
                            tiles[k][1] <= r /\ r < tiles[k][2]}) = 1

\* C2 witness: a partition is complete whose last tile absorbed a remainder
TileCoverageWitness ==
    /\ tileI = tileT /\ tileT >= 2 /\ tileT < tileH
    /\ tileH % tileT # 0
    /\ tiles[tileT][2] - tiles[tileT][1] > tileH \div tileT

\* a render pass is in flight: its workers are being started, run, are joined,
\* merged, and the frame is not presented yet
PassInFlight == pc \in RenderPcs

\* the view a colour was computed under
ViewOf(c) == <<c.zoom, c.cx, c.cy>>

\* C3: while a render pass is in flight the control thread takes no event and
\* changes no view field; workers exist only during the one pass in flight;
\* every pixel computed in the pass was computed under the view as it is, and
\* all pixels of the buffer about to be presented were computed under one view.
ViewStableDuringPass ==
    /\ [](PassInFlight =>
            \A t \in DOMAIN threadBuffers : \A p \in PixelIdx :
                threadBuffers[t][p] # Blank =>
                    /\ threadBuffers[t][p].frame = frame
                    /\ ViewOf(threadBuffers[t][p]) = <<zoom, centerX, centerY>>)
    /\ [](DOMAIN threads # {} => PassInFlight)
    /\ [](pc = "r_present" =>
            \A p, q \in PixelIdx : ViewOf(pixels[p]) = ViewOf(pixels[q]))
    /\ [][PassInFlight => UNCHANGED <<viewVars, nEvents, event>>]_vars

\* C3 witness: a pass is in flight after the view was changed by an event, a
\* worker has computed a pixel and another worker is still running
ViewStableWitness ==
    /\ PassInFlight
    /\ nEvents >= 1 /\ zoom # SCALE
    /\ \E t \in DOMAIN threads : threads[t].st = "run"
    /\ \E t \in DOMAIN threadBuffers : \E p \in PixelIdx :
         threadBuffers[t][p] # Blank

\* C4: the worker count of every render pass is at least 1, whatever
\* hardware_concurrency() returns: the partition never divides by zero and a
\* worker is dispatched.
WorkerCountPositive ==
    /\ pc # "crashed"
    /\ PassInFlight => numThreads >= 1

\* the control thread is about to run the case of the polled event
Dispatching(type) == pc = "dispatch" /\ event.type = type

\* C5: the drag session becomes active only on a left-button press, which
\* records the event's position as anchor; it becomes inactive only on a
\* left-button release; events of another button leave it unchanged; while
\* active, a pointer move sets the anchor to the move's position; so it is
\* active exactly when the last left-button event was a press.
DragStateMachine ==
    /\ [](isDragging <=> lastPrimary = "down")
    /\ [][/\ (~isDragging /\ isDragging') =>
                /\ Dispatching("MOUSEBUTTONDOWN") /\ event.button = "LEFT"
          /\ (Dispatching("MOUSEBUTTONDOWN") /\ event.button = "LEFT") =>
                /\ isDragging' /\ dragStart' = <<event.x, event.y>>
          /\ (isDragging /\ ~isDragging') =>
                /\ Dispatching("MOUSEBUTTONUP") /\ event.button = "LEFT"
          /\ (Dispatching("MOUSEBUTTONUP") /\ event.button = "LEFT") =>
                ~isDragging'
          /\ ((Dispatching("MOUSEBUTTONDOWN") \/ Dispatching("MOUSEBUTTONUP"))
                /\ event.button # "LEFT") => UNCHANGED dragVars
          /\ (Dispatching("MOUSEMOTION") /\ isDragging) =>
                /\ isDragging' /\ dragStart' = <<event.x, event.y>>
         ]_vars

\* C5 witness: a drag was begun, moved the anchor and was ended by a release
DragStateWitness ==
    /\ pc = "poll" /\ ~isDragging /\ lastPrimary = "up"
    /\ dragStart # <<0, 0>> /\ frame >= 2

\* C6: during a drag at fixed zoom, the centre has moved from where it was at
\* the press by the one-shot delta of the anchor's displacement, whatever the
\* intermediate moves: -(x - x0)/(zoom*W/4) and -(y - y0)/(zoom*W/4), up to
\* the rounding of the divisions (half a unit for each move and for the
\* one-shot delta).
DragInvariant ==
    (isDragging /\ drag.fixed) =>
        /\ 2 * Abs(centerX - (drag.cx0
                                - PlaneDelta(dragStart[1] - drag.x0, zoom)))
              <= drag.moves + 1
        /\ 2 * Abs(centerY - (drag.cy0
                                - PlaneDelta(dragStart[2] - drag.y0, zoom)))
              <= drag.moves + 1

\* C6 witness: a drag at a zoom other than 1.0 through an intermediate
\* position, the anchor displaced on both axes, where the rounding of the two
\* moves' deltas differs from that of the one-shot delta
DragInvariantWitness ==
    /\ pc = "poll" /\ isDragging /\ drag.fixed /\ drag.moves >= 2
    /\ zoom # SCALE
    /\ dragStart[1] # drag.x0 /\ dragStart[2] # drag.y0
    /\ centerX # drag.cx0 - PlaneDelta(dragStart[1] - drag.x0, zoom)

\* the control thread is in the wheel handler (or in a render pass the
\* handler called)
WheelActive ==
    \/ pc \in {"wheel_loop", "wheel_after"}
    \/ pc \in RenderPcs \cup {"r_begin"} /\ ret = "wheel_after"

\* render passes started for the current wheel event
WheelRenders == frame - wheelStart.frame

\* C7: handling a wheel event takes at most 10 zoom sub-steps with one render
\* pass each, and the loop is left without a further sub-step or render as
\* soon as currentZoom is within 0.0001 of the target.
ScrollBounded ==
    /\ [](WheelActive =>
            /\ steps \in 1 .. 10
            /\ WheelRenders <= 10
            /\ WheelRenders =
                 IF pc \in {"wheel_loop", "r_begin"} THEN steps - 1 ELSE steps)
    /\ [][(pc = "wheel_loop"
             /\ Abs(currentZoom - targetZoom) <= SCALE \div 10000) =>
                (pc' = "poll" /\ UNCHANGED <<viewVars, frame>>)]_vars
    /\ [][(pc = "wheel_loop"
             /\ Abs(currentZoom - targetZoom) > SCALE \div 10000) =>
                (pc' = "r_begin" /\ ret' = "wheel_after")]_vars

\* C7 witness: a wheel event that took all 10 sub-steps
ScrollBoundedWitness ==
    pc = "wheel_after" /\ steps = 10 /\ WheelRenders = 10

\* the target of the current wheel event: the zoom at its start times 1.1, or
\* divided by 1.1
WheelTarget ==
    IF wheelStart.wy > 0 THEN RoundDiv(wheelStart.zoom * 11, 10)
    ELSE RoundDiv(wheelStart.zoom * 10, 11)

\* 1.1^n
Pow11(n) == (11 ^ n) * (10 ^ (DIGITS - n))

\* the handling of a wheel event finishes within 0.0001 of its target
EndsNearTarget ==
    (WheelActive /\ pc' = "poll") =>
        Abs(zoom' - WheelTarget) <= SCALE \div 10000

\* C8 as stated: every wheel event ends with zoom within 0.0001 of the target
\* computed at its start, and n successive scroll-in events from zoom 1.0 end
\* with zoom within 0.0001 of 1.1^n.
ZoomConvergesToPowers ==
    /\ [][EndsNearTarget]_vars
    /\ []((pc = "poll" /\ scrollOuts = 0 /\ scrollIns \in 1 .. DIGITS) =>
            Abs(zoom - Pow11(scrollIns)) <= SCALE \div 10000)

\* C8 as amended: every wheel event ends with zoom within 0.0001 of the target
\* computed at its start (zoom * 1.1 or zoom / 1.1), and a single scroll-in
\* from zoom 1.0 ends within 0.0001 of 1.1.
ZoomConvergence ==
    /\ [][EndsNearTarget]_vars
    /\ []((pc = "poll" /\ scrollOuts = 0 /\ scrollIns = 1) =>
            Abs(zoom - Pow11(1)) <= SCALE \div 10000)

\* C8 witness: a wheel event has just ended after all 10 sub-steps, and one
\* that zoomed out was handled before
ZoomConvergenceWitness ==
    /\ pc = "poll" /\ scrollIns >= 11 /\ scrollOuts = 1
    /\ zoom > 2 * SCALE

\* C9: in the wheel handler, before and after every sub-step and when the
\* handler is left, the plane point captured under the pointer with the
\* pre-zoom view is the point the current view maps the pointer's pixel to.
CursorAnchored ==
    WheelActive =>
        /\ PlaneOffset(mouseX, WINDOW_WIDTH, zoom) + centerX = mouseWorldX
        /\ PlaneOffset(mouseY, WINDOW_HEIGHT, zoom) + centerY = mouseWorldY

\* C9 witness: zoom sub-steps were taken with the pointer off the viewport
\* centre on both axes, and the centre of the view has moved
CursorAnchoredWitness ==
    /\ pc = "wheel_after" /\ steps >= 3
    /\ 2 * mouseX # WINDOW_WIDTH /\ 2 * mouseY # WINDOW_HEIGHT
    /\ centerX # -(SCALE \div 2) /\ centerY # 0

\* C10: once a quit, window-close or Escape event has cleared `running`, no
\* render pass is started and no view field changes.
NoRenderAfterClose ==
    [][(~running /\ pc # "start") =>
          (frame' = frame /\ UNCHANGED viewVars)]_vars

\* C11: getColor never evaluates a logarithm on a zero or negative argument:
\* for every count it is called with, the count is special-cased, or the
\* argument of the inner log2 and the argument of the outer log2 are strictly
\* positive.
LogArgumentsPositive ==
    colorCall.called =>
        \/ colorCall.special
        \/ colorCall.inner > 0 /\ colorCall.outer > 0

\* z_k of the orbit z_0 = 0, z_{n+1} = z_n^2 + c
RECURSIVE OrbitAt(_, _, _)
OrbitAt(cr, ci, k) ==
    IF k = 0 THEN <<0, 0>>
    ELSE LET z == OrbitAt(cr, ci, k - 1)
         IN  <<RoundDiv(z[1] * z[1] - z[2] * z[2], ESCALE) + cr,
               RoundDiv(2 * z[1] * z[2], ESCALE) + ci>>

\* |z| > 2.0
Escaped(z) == Hypot(z[1], z[2]) > 2 * ESCALE

\* C12: calculateMandelbrot(c) returns a count k in [0, N] that is the
\* smallest k with |z_k| > 2 (no earlier z_j has escaped, and z_k has), or N
\* when no z_k with k <= N has escaped; c = 0 yields N; c = 2 + 0i yields a
\* count of at most 5 with |z| > 2 at termination.
EscapeCount ==
    epc \in {"color", "done"} =>
        /\ iterations \in 0 .. MAX_ITERATIONS
        /\ \A j \in 0 .. iterations - 1 : ~Escaped(OrbitAt(cRe, cIm, j))
        /\ iterations = MAX_ITERATIONS
              \/ Escaped(OrbitAt(cRe, cIm, iterations))
        /\ <<zRe, zIm>> = OrbitAt(cRe, cIm, iterations)
        /\ (cRe = 0 /\ cIm = 0) => iterations = MAX_ITERATIONS
        /\ (cRe = 2 * ESCALE /\ cIm = 0) =>
              iterations <= 5 /\ Escaped(<<zRe, zIm>>)

\* C12 witness: the count returned for c = 2 + 0i, whose z_1 lies on the
\* radius 2.0 and whose z_2 has escaped
EscapeCountWitness ==
    /\ epc = "done" /\ cRe = 2 * ESCALE /\ cIm = 0
    /\ iterations = 2 /\ zRe = 6 * ESCALE

\* C19: the count getColor is called with lies in [1, N].
IterationsAtLeastOne ==
    epc \in {"color", "done"} => iterations \in 1 .. MAX_ITERATIONS

\* C19 witness: getColor was called with the count of a point c outside the
\* radius 2.0, whose first iterate has escaped
IterationsAtLeastOneWitness ==
    /\ epc = "done" /\ colorCall.called /\ iterations = 1
    /\ Escaped(<<cRe, cIm>>)

\* C13: zoom is strictly positive in every reachable state, every
\* intermediate zoom sub-step included, so the divisor zoom * W/4 of the
\* mapping is never zero.
ZoomPositive == zoom > 0 /\ zoom * WINDOW_WIDTH > 0

\* C13 witness: so many wheel events have zoomed out that zoom is below 0.002
\* and a further one would find its target within 0.0001 and change nothing
ZoomPositiveWitness ==
    /\ pc = "poll" /\ scrollOuts = MaxDeepScrolls /\ scrollIns = 0
    /\ zoom < SCALE \div 500
    /\ Abs(zoom - TargetZoom(zoom, -1)) <= SCALE \div 10000

\* the order of the steps of renderMandelbrot() after the set-up
RenderOrder ==
    {<<"r_spawn", "r_join">>, <<"r_join", "r_merge">>,
     <<"r_merge", "r_swap">>, <<"r_swap", "r_present">>}

\* C14: in a render pass all T workers are dispatched before the first join;
\* every worker has finished and is joined before the merge; the merge is
\* followed by one swap of the work and front buffers and the swap by the
\* presentation; the work buffer is written only by the merge and the swap,
\* the front buffer only by the swap, the texture only by the presentation,
\* and none of the three while a worker of the pass is still running.
RenderStepsOrdered ==
    /\ [](pc \in {"r_join", "r_merge", "r_swap", "r_present"} =>
            DOMAIN threads = 0 .. numThreads - 1)
    /\ [](pc \in {"r_merge", "r_swap", "r_present"} =>
            \A t \in DOMAIN threads : threads[t].st = "joined")
    /\ [][(pc \in RenderPcs /\ pc' # pc) =>
             \/ <<pc, pc'>> \in RenderOrder
             \/ pc = "r_present" /\ pc' \notin RenderPcs]_vars
    /\ [][/\ tempPixels' # tempPixels => pc \in {"r_merge", "r_swap"}
          /\ pixels' # pixels => pc = "r_swap" /\ pc' = "r_present"
          /\ texture' # texture => pc = "r_present"
          /\ bufVars' # bufVars =>
                \A t \in DOMAIN threads : threads[t].st # "run"]_vars

\* C14 witness: a second pass with at least two workers, all joined, has
\* swapped the buffers and is about to present a frame that differs from the
\* one on display
RenderStepsWitness ==
    /\ pc = "r_present" /\ numThreads >= 2 /\ frame >= 2
    /\ \A t \in 0 .. numThreads - 1 : threads[t].st = "joined"
    /\ pixels # texture

\* worker t takes a step: it is running and its record changes
WorkerActs(t) ==
    /\ t \in DOMAIN threads /\ t \in DOMAIN threads'
    /\ threads[t].st = "run"
    /\ threads'[t] # threads[t]

\* the rows of tile t
RowsOf(t) ==
    {r \in 0 .. WINDOW_HEIGHT - 1 :
       /\ t * linesPerThread <= r
       /\ r < (IF t = numThreads - 1 THEN WINDOW_HEIGHT
               ELSE (t + 1) * linesPerThread)}

\* C15: a step of worker t writes nothing but thread buffer t, there only
\* offsets of rows of tile t, and neither pixels nor tempPixels nor another
\* worker's buffer or record; a thread buffer is written only by the step of
\* one running worker, its own; pixels and tempPixels are written only by the
\* control thread in the merge and swap steps.
WorkersShareNothing ==
    /\ [][\A t \in DOMAIN threads : WorkerActs(t) =>
             /\ UNCHANGED <<bufVars, viewVars>>
             /\ \A u \in DOMAIN threads \ {t} :
                  threads'[u] = threads[u]
                  /\ threadBuffers'[u] = threadBuffers[u]
             /\ \A p \in PixelIdx :
                  threadBuffers'[t][p] # threadBuffers[t][p] =>
                      p \div WINDOW_WIDTH \in RowsOf(t)]_vars
    /\ [][(DOMAIN threadBuffers' = DOMAIN threadBuffers
             /\ threadBuffers' # threadBuffers) =>
                \E t \in DOMAIN threads : WorkerActs(t)]_vars
    /\ [][(pixels' # pixels \/ tempPixels' # tempPixels) =>
             /\ pc \in {"r_merge", "r_swap"}
             /\ \A t \in DOMAIN threads : ~WorkerActs(t)]_vars

\* C15 witness: two workers of one pass are running and each has written a
\* pixel into its buffer
WorkersShareNothingWitness ==
    \E t, u \in DOMAIN threads :
        /\ t # u /\ threads[t].st = "run" /\ threads[u].st = "run"
        /\ \E p \in PixelIdx : threadBuffers[t][p] # Blank
        /\ \E p \in PixelIdx : threadBuffers[u][p] # Blank

\* the control thread is about to handle a quit notification, a window-close
\* notification or an Escape key-press
Closing ==
    \/ Dispatching("QUIT")
    \/ Dispatching("WINDOWEVENT") /\ event.wev = "CLOSE"
    \/ Dispatching("KEYDOWN") /\ event.sym = "ESCAPE"

\* C16: after the control loop consumes a quit notification, a window-close
\* notification or an Escape key-press, run() eventually returns, whether or
\* not a further event arrives.
CloseTerminates == Closing ~> pc = "done"

\* the control thread takes a zoom sub-step (line 209-215)
SubStep == pc = "wheel_loop" /\ pc' = "r_begin"

\* C17 as stated: every zoom sub-step moves zoom 1/10 of the way from the
\* current zoom to the target zoom (up to the rounding of the division).
SubStepTenth ==
    [][SubStep =>
         Abs(10 * (zoom' - zoom) - (targetZoom - zoom)) <= 5]_vars

\* C17 as amended: zoom sub-step number k (k = 1 .. 10) moves zoom k/10 of
\* the way from the current zoom to the target zoom (up to the rounding of
\* the division); the first moves 1/10 of the way, the tenth all the way.
SubStepFraction ==
    [][SubStep =>
         /\ steps \in 1 .. 10
         /\ Abs(10 * (zoom' - zoom) - steps * (targetZoom - zoom)) <= 5
         /\ steps = 10 => zoom' = targetZoom]_vars

\* C17 witness: the fifth sub-step of a wheel event that zooms out has moved
\* zoom and called the renderer
SubStepWitness ==
    /\ pc = "r_begin" /\ ret = "wheel_after" /\ steps = 5
    /\ wheelStart.wy < 0 /\ zoom < wheelStart.zoom

\* the control thread is about to handle an event that is neither a pan
\* nor a zoom: a button press or release, a key-press, a quit or window
\* notification, or a pointer move while no drag is active
NotPanZoom ==
    \/ Dispatching("MOUSEBUTTONDOWN") \/ Dispatching("MOUSEBUTTONUP")
    \/ Dispatching("KEYDOWN") \/ Dispatching("QUIT")
    \/ Dispatching("WINDOWEVENT")
    \/ Dispatching("MOUSEMOTION") /\ ~isDragging

\* C18: handling a button press or release, a key-press, a quit or window
\* notification, or a pointer move while no drag is active leaves centerX,
\* centerY and zoom unchanged and calls no render pass; the view changes only
\* in the handler of a pointer move during a drag and in the zoom loop of the
\* wheel handler; and the whole handling of a wheel event leaves isDragging
\* and dragStart unchanged.
ViewChangesOnlyOnPanZoom ==
    [][/\ NotPanZoom =>
            /\ UNCHANGED viewVars
            /\ frame' = frame /\ pc' = "poll" /\ ret' = ret
       /\ viewVars' # viewVars =>
            \/ Dispatching("MOUSEMOTION") /\ isDragging
            \/ pc = "wheel_loop"
       /\ (Dispatching("MOUSEWHEEL") \/ WheelActive) =>
            UNCHANGED dragVars]_vars

\* C18 witness: a wheel event is being handled while a drag is active whose
\* anchor is not the first pixel, and has changed the view
ViewChangesWitness ==
    /\ pc = "wheel_after" /\ isDragging /\ dragStart # <<0, 0>>
    /\ zoom # SCALE

====
